---- MODULE Spec2Model ----
(***************************************************************************)
(* slipsocket: SLIP (RFC 1055) framing of messages over a byte stream.     *)
(*                                                                         *)
(* The module models                                                       *)
(*   - the codec  encode / decode            (slipsocket.py, 62-96),       *)
(*   - the packet buffer  _Buffer            (slipsocket.py, 99-162),      *)
(*     whose get() is followed from one call of the read function to the   *)
(*     next, so that every division of the byte stream into pulls is a     *)
(*     behaviour of the model.                                             *)
(*   - seek, tell, readlines and iteration of the readers, write,          *)
(*     writelines and flush of the writers   (slipsocket.py, 226-317),     *)
(*   - wrap                                  (slipsocket.py, 336-346),     *)
(*   - SlipSocket                            (slipsocket.py, 349-414),     *)
(*   - the receive path of the earlier version                             *)
(*                                     (trunk/slipsocket.py, 41-78).       *)
(*                                                                         *)
(* Bytes are integers, byte strings are sequences of bytes.                *)
(***************************************************************************)
EXTENDS Integers, Sequences, FiniteSets

(***************************************************************************)
(* Bounds of the model.                                                    *)
(***************************************************************************)
\* longest raw byte stream read by a _Buffer that is never reset
MaxStreamLen == 5
\* longest raw byte stream read by a _Buffer that is also reset
MaxResetStreamLen == 3
\* longest message given to encode
MaxMsgLen == 2
\* largest number of get() calls on one _Buffer
MaxGets == 4
\* largest offset passed to reset()
MaxOffset == 2
\* largest number of <END> bytes put before or after a packet body
MaxPad == 2
\* longest raw byte stream behind a reader that is repositioned
MaxSeekStreamLen == 4
\* largest number of seek() calls on one reader
MaxSeeks == 1
\* largest number of messages written to one writer
MaxWrites == 3

(***************************************************************************)
(* The SLIP symbols.                                                       *)
(***************************************************************************)
END == <<192>>
ESC == <<219>>
ESC_END == <<219, 220>>
ESC_ESC == <<219, 221>>

\* The byte values the code tells apart, and 65 for every other byte value.
Byte == {192, 219, 220, 221, 65}

SeqsUpTo(S, n) == UNION {[1..k -> S] : k \in 0..n}

(***************************************************************************)
(* bytes / bytearray methods used by the code.                             *)
(***************************************************************************)
\* s.replace(old, new): the non-overlapping occurrences of old, found from
\* the left, are replaced by new.
RECURSIVE Replace(_, _, _)
Replace(s, old, new) ==
    IF Len(s) < Len(old) THEN s
    ELSE IF SubSeq(s, 1, Len(old)) = old
         THEN new \o Replace(SubSeq(s, Len(old) + 1, Len(s)), old, new)
         ELSE <<Head(s)>> \o Replace(Tail(s), old, new)

\* Removes no leading <END> byte (faulty variant of lstrip).
LStripNone(s) == s

\* Removes one leading <END> byte only (faulty variant of lstrip).
LStripOne(s) ==
    IF s # <<>> /\ Head(s) = END[1] THEN Tail(s) ELSE s

\* s.lstrip(_END)
RECURSIVE LStrip(_)
LStrip(s) ==
    IF s # <<>> /\ Head(s) = END[1] THEN LStrip(Tail(s)) ELSE s

\* the trailing half of s.strip(_END)
RECURSIVE RStrip(_)
RStrip(s) ==
    IF s # <<>> /\ s[Len(s)] = END[1] THEN RStrip(SubSeq(s, 1, Len(s) - 1)) ELSE s

\* s.lstrip(_END) in the place of s.strip(_END) (faulty variant).
StripLeft(s) == LStrip(s)

\* s.strip(_END)
Strip(s) == RStrip(LStrip(s))

\* set(s)
SetOf(s) == {s[i] : i \in 1..Len(s)}

\* _END in s
HasEND(s) == END[1] \in SetOf(s)

\* s.find(_END): the 0-based index of the first <END>, -1 when there is none
Find(s) ==
    IF HasEND(s)
    THEN (CHOOSE i \in 1..Len(s) :
              s[i] = END[1] /\ \A j \in 1..(i - 1) : s[j] # END[1]) - 1
    ELSE -1

(***************************************************************************)
(* The codec.                                                              *)
(***************************************************************************)
\* decode with its two replacements in the other order (faulty variant).
decodeEscFirst(p) == Replace(Replace(Strip(p), ESC_ESC, ESC), ESC_END, END)

\* encode with its two replacements in the other order (faulty variant).
encodeEndFirst(d) == END \o Replace(Replace(d, END, ESC_END), ESC, ESC_ESC) \o END

encode(d) == END \o Replace(Replace(d, ESC, ESC_ESC), END, ESC_END) \o END

decode(p) == Replace(Replace(Strip(p), ESC_END, END), ESC_ESC, ESC)

(***************************************************************************)
(* State.                                                                  *)
(***************************************************************************)
VARIABLES
    stream,      \* the bytes of the data source behind read_func
    srcpos,      \* how many of them read_func has delivered
    sent,        \* the messages whose frames make up stream (<<>>: raw stream)
    midesc,      \* some pull ended on an <ESC> byte, with bytes still to come
    data,        \* _Buffer.data, the internal buffer
    bytes_read,  \* _Buffer.bytes_read
    pos,         \* _Buffer.pos
    pc,          \* where the caller of _Buffer is: "idle", or inside get()
                 \* at the read of the first ("loop1") or second ("loop2") loop
    outs,        \* the outcomes of the completed get() calls, in call order
    call,        \* the last method called on the _Buffer
    plain,       \* codec: the message given to encode
    packet,      \* codec: the result of encode
    decoded,     \* codec: the result of decode
    cstep,       \* codec: "start", "encoded", "decoded"
    open,        \* the data source may still grow (a connected socket)
    told,        \* the caller's record of its last tell() call
    seeked,      \* the caller's record of its last seek() call
    rl,          \* the readlines() / iteration in progress
    lines,       \* the results of the completed readlines() calls
    wcalls,      \* the arguments of the write calls on the wrapped object
    wbuf,        \* bytes written to the wrapped writer and not yet flushed
    zeropull,    \* read_func has returned no bytes in the get() call under way
    res,         \* the last call of a method that is not served by get()
    sock,        \* the SlipSocket constructor call, if any
    wrapped,     \* the object that wrap() returned, if it was called
    cuts,        \* the offsets of stream at which the pulls end, when the
                 \* division into pulls is fixed beforehand ({}: it is not)
    tsrcpos,     \* trunk: how many bytes super().recvfrom has delivered
    tbuffer,     \* trunk: socket._buffer
    tpc,         \* trunk: where the caller of socket._recv is
    touts        \* trunk: the outcomes of the completed _recv() calls

bufvars == <<data, bytes_read, pos>>
srcvars == <<stream, srcpos, sent, midesc>>
codecvars == <<plain, packet, decoded, cstep>>
readervars == <<told, seeked, rl, lines>>
writervars == <<wcalls, wbuf>>
iovars == <<open, told, seeked, rl, lines, wcalls, wbuf>>
trunkvars == <<cuts, tsrcpos, tbuffer, tpc, touts>>
extvars == <<zeropull, res, sock, wrapped, trunkvars>>
vars == <<stream, srcpos, sent, midesc, data, bytes_read, pos, pc, outs, call,
          plain, packet, decoded, cstep,
          open, told, seeked, rl, lines, wcalls, wbuf,
          zeropull, res, sock, wrapped,
          cuts, tsrcpos, tbuffer, tpc, touts>>

\* The outcome of a get() call: a decoded packet, or EOFError.
Returned(m) == [kind |-> "msg", msg |-> m]
EOFError == [kind |-> "eof", msg |-> <<>>]

NoCall == [name |-> "none", arg |-> 0, had |-> 0]

\* No method outside get() was called yet: op is the method, exc the
\* exception it raised ("none": it returned), arg its argument, at the
\* number of get() calls completed before it, val the number it returned.
NoResult == [op |-> "none", exc |-> "none", arg |-> 0, at |-> 0, val |-> 0]

\* The outcome of a get() call that an exception of read_func ended.
Raised(x) == [kind |-> x, msg |-> <<>>]

\* SlipSocket() was not called: type is the socket type it was given, object
\* tells that the call returned a SlipSocket, buffer that a _Buffer was made.
NoSocket == [type |-> "none", object |-> FALSE, buffer |-> FALSE]

\* wrap() was not called: class is the class of the object it returned,
\* readable, writable and seekable what the object given to it answered.
NoWrapper == [class |-> "none", readable |-> FALSE, writable |-> FALSE,
              seekable |-> FALSE]

\* tell() was not called yet: p is the value tell() returned, at the number
\* of read() calls and n the number of seek() calls completed before it,
\* ahead the number of bytes read ahead at that time.
NoTell == [p |-> -1, at |-> -1, n |-> 0, ahead |-> 0]

\* seek() was not called yet: to is the offset of the wrapped object after
\* the call, mark the number of read() calls completed before it, logical
\* the value of tell() before it, n the number of seek() calls so far, wrote
\* the number of messages written before it.
NoSeek == [offset |-> 0, whence |-> "none", to |-> -1, mark |-> 0, logical |-> 0,
           n |-> 0, wrote |-> 0]

\* No readlines() call or iteration is in progress: from is the number of
\* read() calls completed before it started.
NoReadlines == [mode |-> "none", hint |-> 0, from |-> 0]

\* _Buffer.unread_bytes
unread_bytes == bytes_read - pos

(***************************************************************************)
(* _Buffer.__init__ / _Buffer.reset                                        *)
(***************************************************************************)
\* reset(p) that sets pos to 0, not to p (faulty variant).
ResetFieldsPosZero(p) == [data |-> <<>>, bytes_read |-> p, pos |-> 0]

\* The fields after reset(p).
ResetFields(p) == [data |-> <<>>, bytes_read |-> p, pos |-> p]

\* reset(p), called between two get() calls.
Reset(p) ==
    /\ pc = "idle"
    /\ data' = ResetFields(p).data
    /\ bytes_read' = ResetFields(p).bytes_read
    /\ pos' = ResetFields(p).pos
    /\ call' = [name |-> "reset", arg |-> p, had |-> Len(data)]
    /\ UNCHANGED <<extvars, srcvars, pc, outs, codecvars, iovars>>

(***************************************************************************)
(* _Buffer.get                                                             *)
(***************************************************************************)
\* set(self.data) < set(_END): an empty buffer only (faulty variant).
OnlyENDStrict(d) == SetOf(d) \subseteq SetOf(END) /\ SetOf(d) # SetOf(END)

\* The condition of the first loop: set(self.data) <= set(_END)
OnlyEND(d) == SetOf(d) \subseteq SetOf(END)

\* A second loop that looks for <END> at the end of the buffer only (faulty
\* variant).
NoENDAtEnd(d) == d = <<>> \/ d[Len(d)] # END[1]

\* A second loop that goes on although the buffer holds an <END> byte
\* (faulty variant).
NoENDAlways(d) == TRUE

\* The condition of the second loop: _END not in self.data
NoEND(d) == ~HasEND(d)

\* What one call of read_func can return: when the data source has bytes
\* left, between one byte and all of them (DEFAULT_BUFFER_SIZE is larger than
\* every stream of the model); when it has none, no bytes if it is at its end
\* (end of file, connection closed), while on an open connection the call
\* blocks until bytes arrive.
ReadResults ==
    IF srcpos >= Len(stream)
    THEN (IF open THEN {} ELSE {<<>>})
    ELSE {SubSeq(stream, srcpos + 1, srcpos + n) : n \in 1..(Len(stream) - srcpos)}

\* self.data = b: the pulled bytes replace the buffer (faulty variant).
ExtendOverwrite(b) ==
    /\ data' = b
    /\ bytes_read' = bytes_read + Len(b)

\* self.data.extend(b) without the count of the bytes (faulty variant).
ExtendUncounted(b) ==
    /\ data' = data \o b
    /\ bytes_read' = bytes_read

\* self.data.extend(b); self.bytes_read += len(b)
Extend(b) ==
    /\ data' = data \o b
    /\ bytes_read' = bytes_read + Len(b)

\* A zero-byte read that returns what the buffer holds (faulty variant).
ZeroReadPartial == [kind |-> "msg", msg |-> decode(data)]

\* A zero-byte read that returns an empty message (faulty variant).
ZeroReadEmpty == [kind |-> "msg", msg |-> <<>>]

\* The outcome of a get() call whose read_func returned no bytes.
ZeroRead == EOFError

\* The removed <END> bytes are not added to self.pos (faulty variant).
PosAfterStripNone(p, buf_len, new_len) == p

\* self.pos += buf_len: the new length is not subtracted (faulty variant).
PosAfterStripWhole(p, buf_len, new_len) == p + buf_len

\* self.pos after the leading <END> bytes are removed
PosAfterStrip(p, buf_len, new_len) == p + (buf_len - new_len)

\* packet = self.data[:end_index]
PacketOf(d, end_index) == SubSeq(d, 1, end_index)

\* self.data = bytearray(): the whole buffer is dropped (faulty variant).
AfterDelAll(d, end_index) == <<>>

\* del self.data[:end_index]: the <END> byte stays (faulty variant).
AfterDelKeepEnd(d, end_index) == SubSeq(d, end_index + 1, Len(d))

\* del self.data[:end_index+1]
AfterDel(d, end_index) == SubSeq(d, end_index + 2, Len(d))

\* get() that does not count the <END> byte it removes (faulty variant).
PosAfterExtractBody(p, end_index) == p + end_index

\* self.pos += end_index+1
PosAfterExtract(p, end_index) == p + end_index + 1

\* get() is called.
GetCall ==
    /\ pc = "idle"
    /\ Len(outs) < MaxGets
    /\ pc' = "loop1"
    /\ call' = [name |-> "get", arg |-> 0, had |-> Len(data)]
    /\ zeropull' = FALSE
    /\ UNCHANGED <<res, sock, wrapped, trunkvars, srcvars, bufvars, outs, codecvars, iovars>>

\* get() that calls read_func again after it returned no bytes (faulty
\* variant).
PcAfterZeroReadRetry == pc

\* if len(b) == 0: raise EOFError(): the call is left.
PcAfterZeroRead == "idle"

\* b = read_func(...); if len(b) == 0: raise EOFError(); otherwise the bytes
\* are appended to the buffer and the loop condition is evaluated again.
ReadMore ==
    \E b \in ReadResults :
        /\ srcpos' = srcpos + Len(b)
        /\ midesc' = (midesc \/ (/\ Len(b) > 0
                                 /\ b[Len(b)] = ESC[1]
                                 /\ srcpos + Len(b) < Len(stream)))
        /\ zeropull' = (Len(b) = 0)
        /\ IF Len(b) = 0
           THEN /\ outs' = Append(outs, ZeroRead)
                /\ pc' = PcAfterZeroRead
                /\ UNCHANGED bufvars
           ELSE /\ Extend(b)
                /\ UNCHANGED <<pos, pc, outs>>
        /\ UNCHANGED <<res, sock, wrapped, trunkvars, stream, sent, call, codecvars, iovars>>

\* get() that turns an exception of read_func into EOFError (faulty
\* variant).
ErrorOutcomeEof(x) == EOFError

\* get() has no try statement: an exception of read_func leaves it as it is.
ErrorOutcome(x) == Raised(x)

\* b = read_func(...) raises a transport error (OSError) in one of the two
\* loops: get() is left at that statement, with the buffer as the earlier
\* pulls of the call made it.
ReadFails ==
    /\ \/ pc = "loop1" /\ OnlyEND(data)
       \/ pc = "loop2" /\ NoEND(data)
    /\ outs' = Append(outs, ErrorOutcome("OSError"))
    /\ pc' = "idle"
    /\ res' = [op |-> "read_func", exc |-> "OSError", arg |-> 0,
               at |-> Len(outs), val |-> 0]
    /\ UNCHANGED <<srcvars, bufvars, call, codecvars, iovars, zeropull, sock, wrapped, trunkvars>>

\* One pass of the first loop: the buffer holds no non-<END> byte.
Loop1Read ==
    /\ pc = "loop1"
    /\ OnlyEND(data)
    /\ ReadMore

\* The first loop ends; the leading <END> bytes are removed.
StripLeading ==
    /\ pc = "loop1"
    /\ ~OnlyEND(data)
    /\ data' = LStrip(data)
    /\ pos' = PosAfterStrip(pos, Len(data), Len(LStrip(data)))
    /\ pc' = "loop2"
    /\ UNCHANGED <<extvars, srcvars, bytes_read, outs, call, codecvars, iovars>>

\* One pass of the second loop: the buffer holds no <END> byte.
Loop2Read ==
    /\ pc = "loop2"
    /\ NoEND(data)
    /\ ReadMore

\* The second loop ends; the packet is extracted, decoded and returned.
Extract ==
    /\ pc = "loop2"
    /\ ~NoEND(data)
    /\ LET end_index == Find(data)
       IN  /\ data' = AfterDel(data, end_index)
           /\ pos' = PosAfterExtract(pos, end_index)
           /\ outs' = Append(outs, Returned(decode(PacketOf(data, end_index))))
    /\ pc' = "idle"
    /\ UNCHANGED <<extvars, srcvars, bytes_read, call, codecvars, iovars>>

Get == GetCall \/ Loop1Read \/ StripLeading \/ Loop2Read \/ Extract

\* The data source behind read_func gets the bytes b at its end (a file
\* that is appended to): a read_func call that returned no bytes is followed
\* by calls that return these.
Arrive(b) ==
    /\ ~open
    /\ Len(stream) + Len(b) <= MaxSeekStreamLen
    /\ stream' = stream \o b
    /\ UNCHANGED <<extvars, srcpos, sent, midesc, bufvars, pc, outs, call,
                   codecvars, iovars>>

(***************************************************************************)
(* _slipreaderfuncs: seek and tell of SlipReader / SlipRandom.  The wrapped *)
(* BufferedReader is at offset srcpos of the raw stream.                    *)
(***************************************************************************)
\* tell() returning the offset of the wrapped object (faulty variant).
TellValueRead == bytes_read

\* tell(): return self._buffer.pos
TellValue == pos

\* p = tell(), kept by the caller.
Tell ==
    /\ pc = "idle"
    /\ rl.mode = "none"
    /\ told' = [p |-> TellValue, at |-> Len(outs), n |-> seeked.n,
                ahead |-> unread_bytes]
    /\ UNCHANGED <<extvars, srcvars, bufvars, pc, outs, call, codecvars,
                   open, seeked, rl, lines, writervars>>

\* seek() that passes a relative offset on as it is (faulty variant).
SeekOffsetRaw(offset, whence) == offset

\* if whence == io.SEEK_CUR: offset -= self._buffer.unread_bytes
SeekOffset(offset, whence) ==
    IF whence = "cur" THEN offset - unread_bytes ELSE offset

\* The offset of the wrapped object after self._io.seek(offset, whence).
IoSeek(offset, whence) ==
    IF whence = "cur" THEN srcpos + offset ELSE offset

\* seek() that sets the counters and keeps the buffer (faulty variant).
BufferAfterSeekKept(p) == [data |-> data, bytes_read |-> p, pos |-> p]

\* pos = self._io.tell(); self._buffer.reset(pos)
BufferAfterSeek(p) == ResetFields(p)

\* seek(offset, whence), called between two read() calls.  Offsets that the
\* wrapped object rejects (before the start of the stream) and offsets
\* behind the end of the stream are not given.
Seek(offset, whence) ==
    /\ pc = "idle"
    /\ rl.mode = "none"
    /\ seeked.n < MaxSeeks
    /\ LET target == IoSeek(SeekOffset(offset, whence), whence)
       IN  /\ target \in 0..Len(stream)
           /\ srcpos' = target
           /\ data' = BufferAfterSeek(target).data
           /\ bytes_read' = BufferAfterSeek(target).bytes_read
           /\ pos' = BufferAfterSeek(target).pos
           /\ seeked' = [offset |-> offset, whence |-> whence, to |-> target,
                         mark |-> Len(outs), logical |-> TellValue,
                         n |-> seeked.n + 1, wrote |-> Len(sent)]
           /\ call' = [name |-> "reset", arg |-> target, had |-> Len(data)]
    /\ UNCHANGED <<extvars, stream, sent, midesc, pc, outs, codecvars,
                   open, told, rl, lines, writervars>>

(***************************************************************************)
(* _slipreaderfuncs: readinto and peek.                                     *)
(***************************************************************************)
\* peek() that returns instead of raising (faulty variant).
RaisedByPeekNone(op) == IF op = "peek" THEN "none" ELSE "UnsupportedOperation"

\* raise io.UnsupportedOperation('readinto') / ('peek')
RaisedBy(op) == "UnsupportedOperation"

\* readinto(buf), buf of n bytes, called between two read() calls.
ReadInto(n) ==
    /\ pc = "idle"
    /\ res' = [op |-> "readinto", exc |-> RaisedBy("readinto"), arg |-> n,
               at |-> Len(outs), val |-> 0]
    /\ UNCHANGED <<srcvars, bufvars, pc, outs, call, codecvars, iovars,
                   zeropull, sock, wrapped, trunkvars>>

\* peek(n), called between two read() calls.
Peek(n) ==
    /\ pc = "idle"
    /\ res' = [op |-> "peek", exc |-> RaisedBy("peek"), arg |-> n,
               at |-> Len(outs), val |-> 0]
    /\ UNCHANGED <<srcvars, bufvars, pc, outs, call, codecvars, iovars,
                   zeropull, sock, wrapped, trunkvars>>

(***************************************************************************)
(* _slipreaderfuncs: readlines and iteration.  rl holds the call that is    *)
(* under way (its hint and the number of read() calls completed before it), *)
(* lines the result of the last call that returned.                         *)
(***************************************************************************)
\* The read() call returned a packet.
Succeeded(o) == o.kind = "msg"

\* The outcomes of the read() calls made since the call under way began.
Got == SubSeq(outs, rl.from + 1, Len(outs))

\* The loop of the call under way makes another read(): no read() has
\* failed, and, with a hint, fewer than hint packets were read.
LoopGoesOn ==
    /\ \A i \in 1..Len(Got) : Succeeded(Got[i])
    /\ rl.mode = "hint" => Len(Got) < rl.hint

\* readlines() that lets the EOFError of the failed read() through (faulty
\* variant).
LinesResultRaises(got) ==
    IF \E i \in 1..Len(got) : ~Succeeded(got[i])
    THEN [kind |-> "eof", out |-> <<>>]
    ELSE [kind |-> "list", out |-> [i \in 1..Len(got) |-> got[i].msg]]

\* out.append(self.read()) for every read() that returned; except EOFError:
\* pass (in __next__: raise StopIteration, which ends list(self) and a for
\* loop); return out
LinesResult(got) ==
    [kind |-> "list",
     out  |-> [i \in 1..Len(SelectSeq(got, Succeeded)) |-> SelectSeq(got, Succeeded)[i].msg]]

\* readlines(h) is called.
ReadLinesCall(h) ==
    /\ pc = "idle"
    /\ rl.mode = "none"
    /\ rl' = [mode |-> IF h < 0 THEN "all" ELSE "hint", hint |-> h,
              from |-> Len(outs)]
    /\ UNCHANGED <<extvars, srcvars, bufvars, pc, outs, call, codecvars,
                   open, told, seeked, lines, writervars>>

\* An iteration over the reader begins (for packet in reader).
IterCall ==
    /\ pc = "idle"
    /\ rl.mode = "none"
    /\ rl' = [mode |-> "iter", hint |-> 0 - 1, from |-> Len(outs)]
    /\ UNCHANGED <<extvars, srcvars, bufvars, pc, outs, call, codecvars,
                   open, told, seeked, lines, writervars>>

\* A read() of the loop, followed from pull to pull.
LinesRead ==
    /\ rl.mode # "none"
    /\ pc = "idle" => LoopGoesOn
    /\ Get

\* The loop has ended: the call returns its list, the iteration stops.
LinesReturn ==
    /\ rl.mode # "none"
    /\ pc = "idle"
    /\ ~LoopGoesOn
    /\ lines' = <<[mode |-> rl.mode, hint |-> rl.hint, from |-> rl.from,
                   res |-> LinesResult(Got)]>>
    /\ rl' = NoReadlines
    /\ UNCHANGED <<extvars, srcvars, bufvars, pc, outs, call, codecvars,
                   open, told, seeked, writervars>>

\* A read() outside readlines and iteration.
PlainRead ==
    /\ rl.mode = "none"
    /\ Get

(***************************************************************************)
(* _slipwriterfuncs: write, writelines and flush of SlipWriter.  wcalls is  *)
(* the sequence of arguments of the write calls made on the wrapped         *)
(* BufferedWriter, wbuf the bytes it holds back, stream the bytes it has    *)
(* passed on.                                                               *)
(***************************************************************************)
\* The messages given to writers: the empty message, a plain one, and two
\* that hold bytes to escape.
WriterMsgs == {<<>>, <<65>>, <<192>>, <<219, 65>>}

\* write() that hands the packet and its closing <END> byte to the wrapped
\* stream in two calls (faulty variant).
WriteOneSplit(w, m) ==
    [calls |-> w.calls \o <<SubSeq(encode(m), 1, Len(encode(m)) - 1), END>>,
     buf   |-> w.buf \o encode(m)]

\* self._io.write(encode(data))
WriteOne(w, m) ==
    [calls |-> Append(w.calls, encode(m)), buf |-> w.buf \o encode(m)]

\* for i in lst: self.write(i)
RECURSIVE WriteAll(_, _)
WriteAll(w, lst) ==
    IF lst = <<>> THEN w ELSE WriteAll(WriteOne(w, Head(lst)), Tail(lst))

\* The wrapped BufferedWriter passes on any number of the bytes it holds,
\* oldest first, whenever it is written to.
Written(w) ==
    /\ wcalls' = w.calls
    /\ \E k \in 0..Len(w.buf) :
          /\ stream' = stream \o SubSeq(w.buf, 1, k)
          /\ wbuf' = SubSeq(w.buf, k + 1, Len(w.buf))

\* write(m)
Write(m) ==
    /\ Len(sent) < MaxWrites
    /\ Written(WriteOne([calls |-> wcalls, buf |-> wbuf], m))
    /\ sent' = Append(sent, m)
    /\ call' = [name |-> "write", arg |-> 1, had |-> Len(wbuf)]
    /\ UNCHANGED <<extvars, srcpos, midesc, bufvars, pc, outs, codecvars,
                   open, readervars>>

\* writelines(lst)
WriteLines(lst) ==
    /\ Len(sent) + Len(lst) <= MaxWrites
    /\ Written(WriteAll([calls |-> wcalls, buf |-> wbuf], lst))
    /\ sent' = sent \o lst
    /\ call' = [name |-> "writelines", arg |-> Len(lst), had |-> Len(wbuf)]
    /\ UNCHANGED <<extvars, srcpos, midesc, bufvars, pc, outs, codecvars,
                   open, readervars>>

\* The wrapped BufferedRandom of a SlipRandom has one position, srcpos, for
\* reading and writing: bytes written replace the bytes of the stream from
\* that position on and extend it at its end.
Overwrite(s, p, f) ==
    SubSeq(s, 1, p) \o f \o SubSeq(s, p + Len(f) + 1, Len(s))

\* A write that leaves the position of the stream where it was (faulty
\* variant).
PosAfterWriteStays(p, f) == p

\* The position of the wrapped stream after the bytes f were written at p.
PosAfterWrite(p, f) == p + Len(f)

\* write(m) of a SlipRandom, called between two read() calls.  The
\* BufferedRandom passes the bytes on before any later read or seek, so they
\* are put into the stream at once.  The packet buffer is not touched.
WriteAt(m) ==
    /\ pc = "idle"
    /\ Len(sent) < MaxWrites
    /\ stream' = Overwrite(stream, srcpos, encode(m))
    /\ srcpos' = PosAfterWrite(srcpos, encode(m))
    /\ wcalls' = WriteOne([calls |-> wcalls, buf |-> wbuf], m).calls
    /\ sent' = Append(sent, m)
    /\ call' = [name |-> "write", arg |-> 1, had |-> Len(data)]
    /\ UNCHANGED <<extvars, midesc, bufvars, pc, outs, codecvars, open, readervars, wbuf>>

\* flush(): return self._io.flush()
Flush ==
    /\ stream' = stream \o wbuf
    /\ wbuf' = <<>>
    /\ call' = [name |-> "flush", arg |-> 0, had |-> Len(wbuf)]
    /\ UNCHANGED <<extvars, srcpos, sent, midesc, bufvars, pc, outs, codecvars,
                   open, readervars, wcalls>>

(***************************************************************************)
(* SlipRWPair: the wrapped BufferedRWPair reads from stream and cannot      *)
(* seek; the bytes written to it are collected in wbuf.                     *)
(***************************************************************************)
\* seek() that resets the buffer before the wrapped seek is refused (faulty
\* variant).
BufferAfterRefusedSeekReset == ResetFields(0)

\* self._io.seek(offset, whence) raises: pos = self._io.tell() and
\* self._buffer.reset(pos) are not reached.
BufferAfterRefusedSeek == [data |-> data, bytes_read |-> bytes_read, pos |-> pos]

\* seek(offset, whence) of a SlipRWPair, called between two read() calls.
SeekPair(offset, whence) ==
    /\ pc = "idle"
    /\ res' = [op |-> "seek", exc |-> "UnsupportedOperation",
               arg |-> SeekOffset(offset, whence), at |-> Len(outs), val |-> 0]
    /\ data' = BufferAfterRefusedSeek.data
    /\ bytes_read' = BufferAfterRefusedSeek.bytes_read
    /\ pos' = BufferAfterRefusedSeek.pos
    /\ UNCHANGED <<srcvars, pc, outs, call, codecvars, iovars, zeropull, sock, wrapped, trunkvars>>

\* A write that moves the read counter by the bytes written (faulty
\* variant).
BufferAfterWriteCounted(f) ==
    [data |-> data, bytes_read |-> bytes_read + Len(f), pos |-> pos]

\* write(), writelines() and sendall() pass encode(data) to the wrapped
\* object and assign no field of self._buffer.
BufferAfterWrite(f) == [data |-> data, bytes_read |-> bytes_read, pos |-> pos]

\* writelines(lst) of a SlipRWPair (write(m) is the call with one entry),
\* at any moment of a read() that another thread has under way.
WriteLinesPair(lst) ==
    /\ Len(wcalls) + Len(lst) <= MaxWrites
    /\ LET w == WriteAll([calls |-> wcalls, buf |-> wbuf], lst)
       IN  /\ wcalls' = w.calls
           /\ wbuf' = w.buf
           /\ data' = BufferAfterWrite(w.buf).data
           /\ bytes_read' = BufferAfterWrite(w.buf).bytes_read
           /\ pos' = BufferAfterWrite(w.buf).pos
    /\ UNCHANGED <<srcvars, pc, outs, call, codecvars,
                   open, readervars, extvars>>

(***************************************************************************)
(* trunk/slipsocket: socket._refresh and socket._recv, the receive path of  *)
(* the earlier version, which keeps a buffer and no counters.  It is given  *)
(* the pulls that _Buffer.get is given: read_func delivers stream in pieces *)
(* that end at the offsets in cuts.                                         *)
(***************************************************************************)
\* The variables that are not those of the trunk socket.
bufferside == <<zeropull, res, sock, wrapped, srcvars, bufvars, pc, outs, call,
                codecvars, iovars>>

\* The offset at which the pull that begins at offset p ends.
NextCut(p) == CHOOSE c \in cuts : c > p /\ \A d \in cuts : d > p => c <= d

\* decode of the trunk module
trunkDecode(p) == Replace(Replace(Strip(p), ESC_END, END), ESC_ESC, ESC)

\* new_data, addr = super().recvfrom(_BUF_SIZE, flags)
TrunkNewData ==
    IF tsrcpos >= Len(stream) THEN <<>>
    ELSE SubSeq(stream, tsrcpos + 1, NextCut(tsrcpos))

\* self._buffer = new_data: the buffer is replaced (faulty variant).
TrunkRefreshedReplaced(buf, new_data) == new_data

\* self._buffer.extend(new_data)
TrunkRefreshed(buf, new_data) == buf \o new_data

\* _refresh(flags)
TrunkRefresh ==
    /\ IF Len(TrunkNewData) = 0
       THEN /\ touts' = Append(touts, Raised("RuntimeError"))
            /\ tpc' = "idle"
            /\ UNCHANGED <<tbuffer, tsrcpos>>
       ELSE /\ tbuffer' = TrunkRefreshed(tbuffer, TrunkNewData)
            /\ tsrcpos' = tsrcpos + Len(TrunkNewData)
            /\ UNCHANGED <<tpc, touts>>
    /\ UNCHANGED <<cuts, bufferside>>

\* _recv() is called, after the get() call of the same number has ended.
TrunkRecvCall ==
    /\ tpc = "idle" /\ pc = "idle"
    /\ Len(touts) < Len(outs)
    /\ tpc' = "loop1"
    /\ UNCHANGED <<cuts, tsrcpos, tbuffer, touts, bufferside>>

\* while set(self._buffer) <= set(_END): self._refresh(flags)
TrunkLoop1 ==
    /\ tpc = "loop1"
    /\ SetOf(tbuffer) \subseteq SetOf(END)
    /\ TrunkRefresh

\* self._buffer = self._buffer.lstrip(_END)
TrunkStrip ==
    /\ tpc = "loop1"
    /\ ~(SetOf(tbuffer) \subseteq SetOf(END))
    /\ tbuffer' = LStrip(tbuffer)
    /\ tpc' = "loop2"
    /\ UNCHANGED <<cuts, tsrcpos, touts, bufferside>>

\* while _END not in self._buffer: self._refresh(flags)
TrunkLoop2 ==
    /\ tpc = "loop2"
    /\ ~HasEND(tbuffer)
    /\ TrunkRefresh

\* end_index = self._buffer.find(_END); packet = self._buffer[:end_index];
\* del self._buffer[:end_index+1]; return decode(packet)
TrunkExtract ==
    /\ tpc = "loop2"
    /\ HasEND(tbuffer)
    /\ LET end_index == Find(tbuffer)
       IN  /\ tbuffer' = SubSeq(tbuffer, end_index + 2, Len(tbuffer))
           /\ touts' = Append(touts, Returned(trunkDecode(SubSeq(tbuffer, 1, end_index))))
    /\ tpc' = "idle"
    /\ UNCHANGED <<cuts, tsrcpos, bufferside>>

\* get() of a _Buffer whose read_func delivers the pulls that end at the
\* offsets in cuts; it is called when the _recv() call of the same number
\* has ended.
BufferGet ==
    /\ Get
    /\ srcpos' # srcpos => srcpos' = NextCut(srcpos)
    /\ pc = "idle" => (tpc = "idle" /\ Len(touts) = Len(outs))

(***************************************************************************)
(* wrap: the wrapper class is chosen from what the object answers to        *)
(* readable(), writable() and seekable().                                   *)
(***************************************************************************)
\* The classes with a message-level read(): those that inherit from
\* _slipreaderfuncs.
HasRead(class) == class \in {"SlipReader", "SlipRandom", "SlipRWPair"}

\* wrap() that asks for writable() first (faulty variant).
wrapWritableFirst(readable, writable, seekable) ==
    IF ~writable THEN "SlipReader"
    ELSE IF ~readable THEN "SlipWriter"
    ELSE IF ~seekable THEN "SlipRWPair"
    ELSE "SlipRandom"

\* The class of the object wrap(obj) returns.
wrap(readable, writable, seekable) ==
    IF ~readable THEN "SlipWriter"
    ELSE IF ~writable THEN "SlipReader"
    ELSE IF ~seekable THEN "SlipRWPair"
    ELSE "SlipRandom"

\* wrap(obj) is called; the constructor of a class with read() makes the
\* _Buffer of the wrapper.
Wrap(readable, writable, seekable) ==
    /\ wrapped = NoWrapper
    /\ pc = "idle"
    /\ wrapped' = [class    |-> wrap(readable, writable, seekable),
                   readable |-> readable,
                   writable |-> writable,
                   seekable |-> seekable]
    /\ IF HasRead(wrap(readable, writable, seekable))
       THEN /\ data' = ResetFields(0).data
            /\ bytes_read' = ResetFields(0).bytes_read
            /\ pos' = ResetFields(0).pos
       ELSE UNCHANGED bufvars
    /\ UNCHANGED <<zeropull, res, sock, trunkvars, srcvars, pc, outs, call,
                   codecvars, iovars>>

\* read() of the wrapper, for the classes that have it.
WrapperRead ==
    /\ HasRead(wrapped.class)
    /\ Get

(***************************************************************************)
(* SlipSocket.  The model follows the endpoint B of a connection: stream is *)
(* the byte stream from its peer A, pulled by B's socket.recv in pieces of  *)
(* any size; wbuf is the byte stream from B to A.                           *)
(***************************************************************************)
\* The messages the peer sends: the empty one, a plain one and one to escape.
SocketMsgs == {<<>>, <<65>>, <<219>>}

\* The message B sends.
ReplyMsgs == {<<192>>}

\* The socket types a SlipSocket is asked for.
SocketTypes == {"SOCK_STREAM", "SOCK_DGRAM", "SOCK_RAW", "SOCK_SEQPACKET"}

\* __init__ without the check of the type (faulty variant).
SocketAfterInitAnyType(ty) ==
    [type |-> ty, object |-> TRUE, buffer |-> TRUE, exc |-> "none"]

\* if type != socket.SOCK_STREAM: raise ValueError(...);
\* super().__init__(...); self._buffer = _Buffer(super().recv, ...)
SocketAfterInit(ty) ==
    IF ty # "SOCK_STREAM"
    THEN [type |-> ty, object |-> FALSE, buffer |-> FALSE, exc |-> "ValueError"]
    ELSE [type |-> ty, object |-> TRUE, buffer |-> TRUE, exc |-> "none"]

\* SlipSocket(type=ty) is called.
Construct(ty) ==
    /\ sock = NoSocket
    /\ sock' = [type   |-> SocketAfterInit(ty).type,
                object |-> SocketAfterInit(ty).object,
                buffer |-> SocketAfterInit(ty).buffer]
    /\ res' = [op |-> "SlipSocket", exc |-> SocketAfterInit(ty).exc,
               arg |-> 0, at |-> 0, val |-> 0]
    /\ IF SocketAfterInit(ty).buffer
       THEN /\ data' = ResetFields(0).data
            /\ bytes_read' = ResetFields(0).bytes_read
            /\ pos' = ResetFields(0).pos
       ELSE UNCHANGED bufvars
    /\ UNCHANGED <<srcvars, pc, outs, call, codecvars, iovars, zeropull, wrapped, trunkvars>>

\* The connection is made (connect on one side, accept on the other); from
\* then on a recv that finds no bytes waits for them.
Connect ==
    /\ ~open
    /\ open' = TRUE
    /\ UNCHANGED <<extvars, srcvars, bufvars, pc, outs, call, codecvars,
                   readervars, writervars>>

\* sendall() that passes the message on as it is (faulty variant).
FrameSentRaw(m) == m

\* super().sendall(encode(data))
FrameSent(m) == encode(m)

\* A calls send(m) / sendall(m): the frame is added to the bytes under way
\* to B.
SendAll(m) ==
    /\ open
    /\ Len(sent) < MaxWrites
    /\ stream' = stream \o FrameSent(m)
    /\ sent' = Append(sent, m)
    /\ UNCHANGED <<extvars, srcpos, midesc, bufvars, pc, outs, call, codecvars, iovars>>

\* B calls send(m) / sendall(m) between two of its recv() calls.
Reply(m) ==
    /\ open
    /\ pc = "idle"
    /\ Len(wcalls) < MaxWrites
    /\ wcalls' = Append(wcalls, FrameSent(m))
    /\ wbuf' = wbuf \o FrameSent(m)
    /\ UNCHANGED <<extvars, srcvars, bufvars, pc, outs, call, codecvars,
                   open, readervars>>

\* B calls recv_into(buf, n):
\* raise AttributeError('slipsocket.socket does not support recv_into')
RecvInto(n) ==
    /\ open
    /\ pc = "idle"
    /\ res' = [op |-> "recv_into", exc |-> "AttributeError", arg |-> n,
               at |-> Len(outs), val |-> 0]
    /\ UNCHANGED <<srcvars, bufvars, pc, outs, call, codecvars, iovars,
                   zeropull, sock, wrapped, trunkvars>>

\* The methods of socket.socket that SlipSocket replaces by a refusal.
RefusedOps ==
    {"recvfrom", "recvfrom_into", "recv_into", "recvmsg", "sendmsg", "sendto"}

\* recvfrom() that drops the bytes read ahead before it raises (faulty
\* variant).
BufferAfterRefusedCallDrops(op) ==
    IF op = "recvfrom"
    THEN [data |-> <<>>, bytes_read |-> bytes_read, pos |-> bytes_read]
    ELSE [data |-> data, bytes_read |-> bytes_read, pos |-> pos]

\* The body of each of the six methods is one raise statement: no field of
\* self._buffer is assigned.
BufferAfterRefusedCall(op) ==
    [data |-> data, bytes_read |-> bytes_read, pos |-> pos]

\* B calls recvfrom(), recvfrom_into(), recv_into(), recvmsg(), sendmsg()
\* or sendto(), connected or not, from any thread:
\* raise AttributeError('slipsocket.socket does not support ...')
Refuse(op) ==
    /\ res' = [op |-> op, exc |-> "AttributeError", arg |-> 0,
               at |-> Len(outs), val |-> 0]
    /\ data' = BufferAfterRefusedCall(op).data
    /\ bytes_read' = BufferAfterRefusedCall(op).bytes_read
    /\ pos' = BufferAfterRefusedCall(op).pos
    /\ UNCHANGED <<srcvars, pc, outs, call, codecvars, iovars,
                   zeropull, sock, wrapped, trunkvars>>

\* B calls makefile(): wrap(super().makefile('rb')) returns a SlipReader
\* over the BufferedReader of the socket.
MakeFile ==
    /\ open
    /\ pc = "idle"
    /\ res.op = "none"
    /\ res' = [op |-> "makefile", exc |-> "none", arg |-> 0,
               at |-> Len(outs), val |-> 0]
    /\ UNCHANGED <<srcvars, bufvars, pc, outs, call, codecvars, iovars,
                   zeropull, sock, wrapped, trunkvars>>

\* read() of the SlipReader that makefile() returned: get() of the reader's
\* own _Buffer calls read1 of the BufferedReader, whose raw stream is filled
\* by recv_into of the SlipSocket; its AttributeError leaves get() at the
\* first pull, and no byte is taken from the connection.
FileRead ==
    /\ open
    /\ res.op \in {"makefile", "read"}
    /\ Len(outs) < MaxGets
    /\ outs' = Append(outs, Raised("AttributeError"))
    /\ res' = [op |-> "read", exc |-> "AttributeError", arg |-> 0,
               at |-> Len(outs), val |-> 0]
    /\ UNCHANGED <<srcvars, bufvars, pc, call, codecvars, iovars,
                   zeropull, sock, wrapped, trunkvars>>

\* B calls recv(): self._buffer.get(flags), followed from pull to pull.
Recv ==
    /\ open
    /\ Get

(***************************************************************************)
(* The codec, applied to a message.                                        *)
(***************************************************************************)
Encode ==
    /\ cstep = "start"
    /\ packet' = encode(plain)
    /\ cstep' = "encoded"
    /\ UNCHANGED <<extvars, srcvars, bufvars, pc, outs, call, plain, decoded, iovars>>

Decode ==
    /\ cstep = "encoded"
    /\ decoded' = decode(packet)
    /\ cstep' = "decoded"
    /\ UNCHANGED <<extvars, srcvars, bufvars, pc, outs, call, plain, packet, iovars>>

\* n <END> bytes
Ends(n) == [i \in 1..n |-> END[1]]

\* A sender delimits the packet body with any number of <END> bytes.
Pad ==
    /\ cstep = "body"
    /\ \E i, j \in 0..MaxPad : packet' = Ends(i) \o plain \o Ends(j)
    /\ cstep' = "encoded"
    /\ UNCHANGED <<extvars, srcvars, bufvars, pc, outs, call, plain, decoded, iovars>>

(***************************************************************************)
(* Specifications.                                                         *)
(***************************************************************************)
\* A _Buffer after __init__, over the data source s whose pulls end at the
\* offsets c; beside it a trunk socket after __init__.
InitBufferPulls(s, msgs, c) ==
    /\ cuts = c
    /\ tsrcpos = 0
    /\ tbuffer = <<>>
    /\ tpc = "idle"
    /\ touts = <<>>
    /\ stream = s
    /\ srcpos = 0
    /\ sent = msgs
    /\ midesc = FALSE
    /\ data = ResetFields(0).data
    /\ bytes_read = ResetFields(0).bytes_read
    /\ pos = ResetFields(0).pos
    /\ pc = "idle"
    /\ outs = <<>>
    /\ call = NoCall
    /\ open = FALSE
    /\ told = NoTell
    /\ seeked = NoSeek
    /\ rl = NoReadlines
    /\ lines = <<>>
    /\ wcalls = <<>>
    /\ wbuf = <<>>
    /\ zeropull = FALSE
    /\ res = NoResult
    /\ sock = NoSocket
    /\ wrapped = NoWrapper

\* A _Buffer after __init__, over the data source s.
InitBuffer(s, msgs) == InitBufferPulls(s, msgs, {})

InitNoCodec ==
    /\ plain = <<>>
    /\ packet = <<>>
    /\ decoded = <<>>
    /\ cstep = "off"

\* Spec: a _Buffer over any raw byte stream, with get() and reset() calls.
Init ==
    /\ \E s \in SeqsUpTo(Byte, MaxResetStreamLen) : InitBuffer(s, <<>>)
    /\ InitNoCodec

Next == Get \/ \E p \in 0..MaxOffset : Reset(p)

Spec == Init /\ [][Next]_vars

\* SpecGet: a fresh _Buffer over any raw byte stream, get() calls only.
InitGet ==
    /\ \E s \in SeqsUpTo(Byte, MaxStreamLen) : InitBuffer(s, <<>>)
    /\ InitNoCodec

NextGet == Get

SpecGet == InitGet /\ [][NextGet]_vars

\* SpecFaulty: a fresh _Buffer over any raw byte stream whose read function
\* can fail at any call, with get() calls.
InitFaulty ==
    /\ \E s \in SeqsUpTo(Byte, MaxResetStreamLen) : InitBuffer(s, <<>>)
    /\ InitNoCodec

NextFaulty ==
    \/ Get
    \/ ReadFails

SpecFaulty == InitFaulty /\ [][NextFaulty]_vars

\* SpecLive: SpecFaulty's streams with a read function that does not fail;
\* a get() call that was begun goes on to its next statement (the caller
\* need not call get() again).
SpecLive ==
    /\ InitFaulty
    /\ [][NextGet]_vars
    /\ WF_vars(Loop1Read \/ StripLeading \/ Loop2Read \/ Extract)

\* SpecFrames: a fresh _Buffer over encode(m1) followed by encode(m2).
InitFrames ==
    /\ \E m1, m2 \in SeqsUpTo(Byte, MaxMsgLen) :
          InitBuffer(encode(m1) \o encode(m2), <<m1, m2>>)
    /\ InitNoCodec

SpecFrames == InitFrames /\ [][NextGet]_vars

\* SpecSeek: a SlipReader over any raw byte stream, with read(), tell() and
\* seek() calls.  Positions count raw bytes whatever their value, so the
\* streams are made of <END> and one other byte.
SeekByte == {192, 65}

InitSeek ==
    /\ \E s \in SeqsUpTo(SeekByte, MaxSeekStreamLen) : InitBuffer(s, <<>>)
    /\ InitNoCodec

NextSeek ==
    \/ Get
    \/ Tell
    \/ \E k \in (0 - MaxSeekStreamLen)..MaxSeekStreamLen,
          w \in {"set", "cur"} : Seek(k, w)

SpecSeek == InitSeek /\ [][NextSeek]_vars

\* SpecGrow: a SlipReader over a raw byte stream that grows, with read() and
\* tell() calls.
NextGrow ==
    \/ Get
    \/ Tell
    \/ \E b \in SeqsUpTo(SeekByte, MaxSeekStreamLen) \ {<<>>} : Arrive(b)

SpecGrow == InitSeek /\ [][NextGrow]_vars

\* SpecWriter: a SlipWriter over an empty stream, with write(), writelines()
\* and flush() calls.
InitWriter ==
    /\ InitBuffer(<<>>, <<>>)
    /\ InitNoCodec

NextWriter ==
    \/ \E m \in WriterMsgs : Write(m)
    \/ \E lst \in SeqsUpTo(WriterMsgs, MaxWrites) : WriteLines(lst)
    \/ Flush

SpecWriter == InitWriter /\ [][NextWriter]_vars

\* SpecRandom: a SlipRandom over an empty stream, with write(), seek() and
\* read() calls.
\* The messages are the empty one, a plain one and one to escape; the
\* stream is rewound to its start.
RandomMsgs == {<<>>, <<65>>, <<219>>}

InitRandom ==
    /\ InitBuffer(<<>>, <<>>)
    /\ InitNoCodec

NextRandom ==
    \/ \E m \in RandomMsgs : WriteAt(m)
    \/ Seek(0, "set")
    \/ Get

SpecRandom == InitRandom /\ [][NextRandom]_vars

\* SpecSocket: a SlipSocket B connected to a peer A that sends messages,
\* with recv() and send() calls of B.
InitSocket ==
    /\ InitBuffer(<<>>, <<>>)
    /\ InitNoCodec

NextSocket ==
    \/ Connect
    \/ \E m \in SocketMsgs : SendAll(m)
    \/ \E m \in ReplyMsgs : Reply(m)
    \/ Recv

SpecSocket == InitSocket /\ [][NextSocket]_vars

\* SpecRecvInto: SpecSocket with recv_into() calls of B.
NextRecvInto ==
    \/ NextSocket
    \/ \E n \in 0..MaxOffset : RecvInto(n)

SpecRecvInto == InitSocket /\ [][NextRecvInto]_vars

\* SpecRefuse: SpecSocket with calls of the six methods that are refused.
NextRefuse ==
    \/ NextSocket
    \/ \E op \in RefusedOps : Refuse(op)

SpecRefuse == InitSocket /\ [][NextRefuse]_vars

\* SpecMakefile: a connected SlipSocket B whose messages are read through
\* the reader that makefile() returns.
NextMakefile ==
    \/ Connect
    \/ \E m \in SocketMsgs : SendAll(m)
    \/ MakeFile
    \/ FileRead

SpecMakefile == InitSocket /\ [][NextMakefile]_vars

\* SpecConstruct: SlipSocket() is called with any socket type; the socket it
\* returns is used as in SpecSocket.
NextConstruct ==
    \/ \E ty \in SocketTypes : Construct(ty)
    \/ (sock.object /\ NextSocket)

SpecConstruct == InitSocket /\ [][NextConstruct]_vars

\* SpecLines: a SlipReader over any raw byte stream of <END>, <ESC> and
\* 0xDC bytes, with read(), readlines() and iteration.
LinesByte == {192, 219, 220}

InitLines ==
    /\ \E s \in SeqsUpTo(LinesByte, MaxSeekStreamLen) : InitBuffer(s, <<>>)
    /\ InitNoCodec

NextLines ==
    \/ \E h \in (0 - 1)..MaxGets : ReadLinesCall(h)
    \/ IterCall
    \/ LinesRead
    \/ LinesReturn
    \/ PlainRead

SpecLines == InitLines /\ [][NextLines]_vars

\* SpecReader: a SlipReader over any raw byte stream, with read(),
\* readinto() and peek() calls.
NextReader ==
    \/ Get
    \/ \E n \in 0..MaxOffset : ReadInto(n)
    \/ \E n \in 0..MaxOffset : Peek(n)

SpecReader == InitSeek /\ [][NextReader]_vars

\* SpecWrap: wrap() is called on an object over any raw byte stream, and
\* the wrapper is read from.
NextWrap ==
    \/ \E readable, writable, seekable \in BOOLEAN :
          Wrap(readable, writable, seekable)
    \/ WrapperRead

SpecWrap == InitSeek /\ [][NextWrap]_vars

\* SpecTrunk: a _Buffer and a trunk socket over the same raw byte stream,
\* delivered to both in the same pulls; get() and _recv() are called in
\* turn.
InitTrunk ==
    /\ \E s \in SeqsUpTo(Byte, MaxResetStreamLen) :
          \E c \in SUBSET (1..Len(s)) :
              /\ s # <<>> => Len(s) \in c
              /\ InitBufferPulls(s, <<>>, c)
    /\ InitNoCodec

NextTrunk ==
    \/ BufferGet
    \/ TrunkRecvCall
    \/ TrunkLoop1
    \/ TrunkStrip
    \/ TrunkLoop2
    \/ TrunkExtract

SpecTrunk == InitTrunk /\ [][NextTrunk]_vars

\* SpecPair: a SlipRWPair that reads any raw byte stream, with read(),
\* seek(), write() and writelines() calls.
PairMsgs == {<<192>>}

NextPair ==
    \/ Get
    \/ \E k \in (0 - MaxOffset)..MaxOffset,
          w \in {"set", "cur", "end"} : SeekPair(k, w)
    \/ \E lst \in SeqsUpTo(PairMsgs, MaxWrites) : WriteLinesPair(lst)

SpecPair == InitSeek /\ [][NextPair]_vars

\* SpecCodec: encode, then decode, of any message.
InitCodec ==
    /\ InitBuffer(<<>>, <<>>)
    /\ plain \in SeqsUpTo(Byte, MaxMsgLen + 1)
    /\ packet = <<>>
    /\ decoded = <<>>
    /\ cstep = "start"

NextCodec == Encode \/ Decode

SpecCodec == InitCodec /\ [][NextCodec]_vars

\* SpecDecode: decode of any packet body with <END> bytes around it.
InitDecode ==
    /\ InitBuffer(<<>>, <<>>)
    /\ plain \in {b \in SeqsUpTo(Byte, MaxMsgLen + 1) :
                     b = <<>> \/ (b[1] # END[1] /\ b[Len(b)] # END[1])}
    /\ packet = <<>>
    /\ decoded = <<>>
    /\ cstep = "body"

NextDecode == Pad \/ Decode

SpecDecode == InitDecode /\ [][NextDecode]_vars

(***************************************************************************)
(* Properties of the codec.                                                *)
(***************************************************************************)
\* C1: for every byte sequence m, with the bytes 0xC0, 0xDB, 0xDC, 0xDD in
\* any arrangement and the empty sequence included, decode(encode(m)) = m.
C1_RoundTrip ==
    cstep = "decoded" => decoded = plain

\* A message with <ESC>, the second byte of <ESC_END> and <END> went round.
C1_Witness ==
    cstep = "decoded" /\ plain = <<219, 220, 192>>

\* The byte-by-byte substitution of a message: <ESC> becomes <ESC_ESC>,
\* <END> becomes <ESC_END>, every other byte is copied.
RECURSIVE Stuffed(_)
Stuffed(m) ==
    IF m = <<>> THEN <<>>
    ELSE (CASE Head(m) = 219 -> <<219, 221>>
            [] Head(m) = 192 -> <<219, 220>>
            [] OTHER -> <<Head(m)>>) \o Stuffed(Tail(m))

\* C17: encode(m) is <END>, the single-pass substitution of m, <END>; no
\* byte that escaping introduced is escaped again; encode(C0) = C0 DB DC C0
\* and encode(DB) = C0 DB DD C0.
C17_EncodeIsStuffing ==
    cstep \in {"encoded", "decoded"} =>
        /\ packet = <<192>> \o Stuffed(plain) \o <<192>>
        /\ plain = <<192>> => packet = <<192, 219, 220, 192>>
        /\ plain = <<219>> => packet = <<192, 219, 221, 192>>

\* A message with both reserved bytes next to each other was encoded.
C17_Witness ==
    /\ cstep = "encoded"
    /\ plain = <<192, 219, 220>>
    /\ packet = <<192, 219, 220, 219, 221, 220, 192>>

\* C18: for a body b that neither starts nor ends with <END>, decode of i
\* <END> bytes, b and j <END> bytes is decode(b) for all i, j >= 0; decode
\* of <END> bytes only is the empty message.
C18_DecodeIgnoresDelimiters ==
    cstep = "decoded" =>
        /\ decoded = decode(plain)
        /\ (\A i \in 1..Len(packet) : packet[i] = 192) => decoded = <<>>

\* A body was decoded with two <END> bytes before it and one after it.
C18_Witness ==
    /\ cstep = "decoded"
    /\ plain = <<219, 220, 65>>
    /\ packet = <<192, 192, 219, 220, 65, 192>>
    /\ decoded = <<192, 65>>

(***************************************************************************)
(* Properties of _Buffer.get.                                              *)
(***************************************************************************)
\* The packets of a raw byte string: its maximal non-empty runs of non-<END>
\* bytes that are followed by an <END> byte, in order.
RECURSIVE BodiesFrom(_, _, _)
BodiesFrom(s, i, run) ==
    IF i > Len(s) THEN <<>>
    ELSE IF s[i] = 192
         THEN (IF run = <<>> THEN <<>> ELSE <<run>>) \o BodiesFrom(s, i + 1, <<>>)
         ELSE BodiesFrom(s, i + 1, Append(run, s[i]))

Bodies(s) == BodiesFrom(s, 1, <<>>)

\* The messages a sequence of packets carries.
Messages(bodies) == [i \in 1..Len(bodies) |-> decode(bodies[i])]

\* The messages the completed get() calls returned, in order.
IsMsg(o) == o.kind = "msg"
ReturnedMsgs == [i \in 1..Len(SelectSeq(outs, IsMsg)) |-> SelectSeq(outs, IsMsg)[i].msg]

\* The bytes read_func has delivered so far.
PulledBytes == SubSeq(stream, 1, srcpos)

\* C2 as stated: for all byte sequences m1 and m2, when encode(m1) followed
\* by encode(m2) is delivered in any division into pulls, the first get()
\* returns m1 and the second get() returns m2.
C2_AnyMessages ==
    /\ Len(outs) >= 1 => outs[1] = Returned(sent[1])
    /\ Len(outs) >= 2 => outs[2] = Returned(sent[2])

\* C2, amended: the same for all non-empty m1 and m2 (the frame of an empty
\* message is two <END> bytes, which get() skips as delimiters).
C2_NonEmptyMessages ==
    (sent[1] # <<>> /\ sent[2] # <<>>) => C2_AnyMessages

\* Both messages were returned, both hold bytes that are escaped, and a pull
\* ended between the two bytes of an escape sequence.
C2_Witness ==
    /\ Len(outs) = 2
    /\ sent = <<<<192, 219>>, <<219, 192>>>>
    /\ outs = <<Returned(sent[1]), Returned(sent[2])>>
    /\ midesc

\* get() called again and again on a buffer that already holds the whole
\* byte string d, read_func returning no bytes any more: the outcomes up to
\* the first EOFError.
RECURSIVE WholeOuts(_)
WholeOuts(d) ==
    IF OnlyEND(d) THEN <<EOFError>>
    ELSE LET s == LStrip(d)
         IN  IF NoEND(s) THEN <<EOFError>>
             ELSE <<Returned(decode(PacketOf(s, Find(s))))>>
                      \o WholeOuts(AfterDel(s, Find(s)))

\* C3: however the raw byte stream is divided into pulls, the outcomes of
\* the successive get() calls are those of the stream delivered in one pull:
\* the same messages in the same order, then EOFError.
C3_ChunkInvariance ==
    LET whole == WholeOuts(stream)
    IN  \A i \in 1..Len(outs) :
            outs[i] = IF i <= Len(whole) THEN whole[i] ELSE EOFError

\* A stream of two packets was read to its end in more than one pull (one
\* of them ended inside an escape sequence), and get() then failed.
C3_Witness ==
    /\ Len(outs) = 3
    /\ outs[1].kind = "msg" /\ outs[2].kind = "msg" /\ outs[3] = EOFError
    /\ midesc

\* C4: no frame is skipped, merged with another or returned twice, also
\* when one pull delivers several complete frames: the messages of the
\* packets pulled so far are the messages returned so far, in stream order,
\* followed by those of the packets still in the buffer.
C4_OneFramePerGet ==
    Messages(Bodies(PulledBytes)) = ReturnedMsgs \o Messages(Bodies(data))

\* The first get() found an empty buffer, returned one message, and a
\* further complete packet is left in the buffer.
C4_Witness ==
    /\ pc = "idle"
    /\ Len(outs) = 1 /\ outs[1].kind = "msg"
    /\ Len(Bodies(data)) >= 1

\* The buffer holds the bytes of a packet that no <END> byte ends yet.
PartialBody(d) == d # <<>> /\ \A i \in 1..Len(d) : d[i] # 192

\* The buffer holds no non-<END> byte.
NoBody(d) == \A i \in 1..Len(d) : d[i] = 192

\* Every message returned so far is the decode of a packet of s.
ReturnedFrom(s) ==
    \A i \in 1..Len(outs) :
        outs[i].kind = "msg" =>
            \E j \in 1..Len(Bodies(s)) : outs[i].msg = decode(Bodies(s)[j])

\* C5: when read_func returns no bytes while the buffer holds an unended
\* packet body, get() fails with EOFError and returns no partial body (the
\* body stays in the buffer); every message get() returns is the decode of a
\* run of non-<END> bytes that an <END> byte followed in the pulled stream.
C5_NoPartialMessage ==
    /\ [][ (pc = "loop2" /\ PartialBody(data) /\ srcpos = Len(stream))
              => (outs' = Append(outs, EOFError) /\ pc' = "idle" /\ data' = data)
         ]_vars
    /\ [] ReturnedFrom(PulledBytes)

\* A message was returned, the stream then ended inside the next packet:
\* get() failed and the body read so far is in the buffer.
C5_Witness ==
    /\ pc = "idle"
    /\ Len(outs) = 2 /\ outs[1].kind = "msg" /\ outs[2] = EOFError
    /\ PartialBody(data)

\* C6: whenever the buffer holds no non-<END> byte and read_func returns no
\* bytes, get() fails with EOFError: on the first call on a fresh _Buffer,
\* on the call after the last packet, and on every call after that.
C6_EofOnEmptyBuffer ==
    [][ (pc = "loop1" /\ NoBody(data) /\ srcpos = Len(stream))
            => (outs' = Append(outs, EOFError) /\ pc' = "idle"
                /\ UNCHANGED <<data, bytes_read, pos>>) ]_vars

\* The only packet of the stream was returned, and the two get() calls that
\* followed failed, the buffer holding a lone <END> byte.
C6_Witness ==
    /\ pc = "idle"
    /\ Len(outs) = 3 /\ outs[1].kind = "msg"
    /\ outs[2] = EOFError /\ outs[3] = EOFError
    /\ data = <<192>>

\* C7: in a stream whose packets are preceded, separated or followed by runs
\* of <END> bytes of any length, the get() calls return the decoded packets
\* in stream order; a run of <END> bytes yields no message (none is empty)
\* and no failure (get() fails only once the stream has ended and every
\* packet has been returned).
C7_EndRunsCollapse ==
    LET exp == Messages(Bodies(stream))
    IN  \A i \in 1..Len(outs) :
            /\ outs[i].kind = "msg" =>
                   (i <= Len(exp) /\ outs[i].msg = exp[i] /\ outs[i].msg # <<>>)
            /\ outs[i] = EOFError => (srcpos = Len(stream) /\ i > Len(exp))

\* Two packets with two <END> bytes between them: both were returned, then
\* get() failed.
C7_Witness ==
    /\ stream = <<219, 192, 192, 65, 192>>
    /\ outs = <<Returned(<<219>>), Returned(<<65>>), EOFError>>

\* C8: in every reachable state, after any get() calls (returned or failed)
\* and reset() calls, pos <= bytes_read, so unread_bytes is not negative.
C8_PosAtMostBytesRead ==
    pos <= bytes_read /\ unread_bytes >= 0

\* After a reset to a positive offset, one get() returned and one failed;
\* bytes of an unended packet are unread.
C8_Witness ==
    /\ pc = "idle" /\ call.name = "get"
    /\ pos > srcpos
    /\ \E i, j \in 1..Len(outs) : outs[i].kind = "msg" /\ outs[j] = EOFError
    /\ unread_bytes > 0

\* The maximal suffix of s that holds no <END> byte.
RECURSIVE OpenRun(_)
OpenRun(s) ==
    IF s = <<>> \/ s[Len(s)] = 192 THEN <<>>
    ELSE Append(OpenRun(SubSeq(s, 1, Len(s) - 1)), s[Len(s)])

\* C9: after every get() call, returned or failed, the buffer is the tail of
\* the pulled bytes; the bytes before it are those of the returned packets
\* with their <END> bytes (and skipped <END> bytes), and every byte pulled
\* for a packet that is not yet complete is in the buffer.
C9_BufferHoldsUnreturned ==
    pc = "idle" =>
        /\ Len(data) <= srcpos
        /\ data = SubSeq(stream, srcpos - Len(data) + 1, srcpos)
        /\ LET gone == SubSeq(stream, 1, srcpos - Len(data))
           IN  /\ Messages(Bodies(gone)) = ReturnedMsgs
               /\ OpenRun(gone) = <<>>
        /\ OpenRun(data) = OpenRun(PulledBytes)

\* get() returned a message and then failed at the end of the stream; the
\* bytes of the unended packet are still in the buffer.
C9_Witness ==
    /\ pc = "idle"
    /\ stream = <<192, 65, 192, 219, 220>>
    /\ outs = <<Returned(<<65>>), EOFError>>
    /\ data = <<219, 220>>

\* C10: reset(new_offset) leaves the buffer empty and bytes_read and pos
\* equal to new_offset, so unread_bytes is 0 and buffered data is discarded.
C10_ResetClears ==
    call.name = "reset" =>
        /\ data = <<>>
        /\ bytes_read = call.arg
        /\ pos = call.arg
        /\ unread_bytes = 0

\* reset() was called with a positive offset on a buffer that held bytes of
\* an unended packet after a failed get().
C10_Witness ==
    /\ call.name = "reset" /\ call.arg > 0 /\ call.had > 0
    /\ Len(outs) >= 1 /\ outs[Len(outs)] = EOFError

(***************************************************************************)
(* Properties of seek and tell.                                            *)
(***************************************************************************)
\* The outcome of the k-th read() of a reader at the start of the raw byte
\* string s: the messages of s in order, then EOFError.
ReadFromStart(s, k) ==
    IF k <= Len(Bodies(s)) THEN Returned(Messages(Bodies(s))[k]) ELSE EOFError

\* C11: after any number of reads, seek(0) is followed by reads that return
\* the messages of the unchanged raw stream from the first one on, in order,
\* and then fail with EOFError.
C11_SeekZeroReplays ==
    seeked.to = 0 =>
        \A i \in 1..Len(outs) :
            i > seeked.mark => outs[i] = ReadFromStart(stream, i - seeked.mark)

\* The reader had returned a message and had failed at the end of the
\* stream with a part of a packet in its buffer; after seek(0) it returned
\* the message again and failed again.
C11_Witness ==
    /\ seeked.to = 0 /\ seeked.mark = 2
    /\ call.had > 0
    /\ Len(outs) = 4
    /\ IsMsg(outs[1]) /\ outs[2] = EOFError
    /\ outs[3] = outs[1] /\ outs[4] = EOFError

\* C12: p = tell(), then d = read() succeeds, then seek(p): the next read()
\* returns d again, whatever had been read ahead.
C12_SeekToTold ==
    ( /\ told.at >= 0
      /\ seeked.whence = "set" /\ seeked.offset = told.p
      /\ seeked.n = told.n + 1
      /\ seeked.mark = told.at + 1
      /\ Len(outs) > seeked.mark
      /\ IsMsg(outs[seeked.mark]) )
    => outs[seeked.mark + 1] = outs[seeked.mark]

\* tell() was called after a successful read that had read bytes ahead, the
\* read after it returned d, and after seek(p) the read returned d.
C12_Witness ==
    /\ told.at = 1 /\ told.p > 0 /\ told.ahead > 0 /\ IsMsg(outs[1])
    /\ seeked.whence = "set" /\ seeked.offset = told.p
    /\ seeked.n = told.n + 1
    /\ seeked.mark = 2
    /\ Len(outs) = 3 /\ IsMsg(outs[2]) /\ outs[3] = outs[2]

\* C13: seek(k, SEEK_CUR) puts the wrapped stream at raw offset tell() + k,
\* tell() taken before the call, and the buffer is empty at that offset, so
\* the next read scans from there and not from the read-ahead position.
C13_RelativeSeek ==
    seeked.whence = "cur" =>
        /\ seeked.to = seeked.logical + seeked.offset
        /\ call.name = "reset" =>
              /\ srcpos = seeked.logical + seeked.offset
              /\ TellValue = seeked.logical + seeked.offset
              /\ data = <<>>

\* seek(k, SEEK_CUR) with k # 0 was called when bytes had been read ahead.
C13_Witness ==
    /\ seeked.whence = "cur" /\ seeked.offset # 0
    /\ call.name = "reset" /\ call.had > 0
    /\ seeked.mark >= 1 /\ IsMsg(outs[seeked.mark])

\* The raw offset just past the <END> byte that ends the k-th packet of s,
\* scanning from index i; -1 when s has fewer than k packets.
RECURSIVE EndOffset(_, _, _, _)
EndOffset(s, i, inbody, k) ==
    IF i > Len(s) THEN 0 - 1
    ELSE IF s[i] = 192
         THEN IF inbody
              THEN (IF k = 1 THEN i ELSE EndOffset(s, i + 1, FALSE, k - 1))
              ELSE EndOffset(s, i + 1, FALSE, k)
         ELSE EndOffset(s, i + 1, TRUE, k)

\* The summed length of the frames of the first k messages of msgs.
RECURSIVE FramesLen(_, _)
FramesLen(msgs, k) ==
    IF k = 0 THEN 0 ELSE FramesLen(msgs, k - 1) + Len(encode(msgs[k]))

\* tell() after the k-th successful read is the summed length of the first
\* k frames.
TellIsFramesLen ==
    (pc = "idle" /\ Len(outs) >= 1 /\ IsMsg(outs[Len(outs)]))
    => TellValue = FramesLen(sent, Len(ReturnedMsgs))

\* C14 as stated: tell() is 0 before any read; after the k-th successful
\* read it is the raw offset just past the <END> byte of the k-th returned
\* frame, which for a concatenation of encode() outputs is the summed length
\* of the first k frames, however the stream was divided into pulls.
C14_TellAfterReads ==
    /\ (pc = "idle" /\ Len(outs) = 0) => TellValue = 0
    /\ (pc = "idle" /\ Len(outs) >= 1 /\ IsMsg(outs[Len(outs)]))
       => TellValue = EndOffset(stream, 1, FALSE, Len(ReturnedMsgs))
    /\ TellIsFramesLen

\* C14, amended: the summed length of the first k frames is the value of
\* tell() for a concatenation of encode() outputs of non-empty messages (the
\* frame of an empty message is skipped, and counted, by the read after it).
C14_TellAfterReadsNonEmpty ==
    /\ (pc = "idle" /\ Len(outs) = 0) => TellValue = 0
    /\ (pc = "idle" /\ Len(outs) >= 1 /\ IsMsg(outs[Len(outs)]))
       => TellValue = EndOffset(stream, 1, FALSE, Len(ReturnedMsgs))
    /\ (\A i \in 1..Len(sent) : sent[i] # <<>>) => TellIsFramesLen

\* The first read returned the first of two non-empty messages after a pull
\* that delivered bytes of the second frame too.
C14_Witness ==
    /\ pc = "idle" /\ Len(outs) = 1 /\ IsMsg(outs[1])
    /\ sent[1] # <<>> /\ sent[2] # <<>>
    /\ bytes_read > pos
    /\ TellValue = Len(encode(sent[1]))

(***************************************************************************)
(* Properties of the writers.                                              *)
(***************************************************************************)
\* The frames of the messages msgs, one after the other.
RECURSIVE FramesOf(_)
FramesOf(msgs) ==
    IF msgs = <<>> THEN <<>> ELSE encode(Head(msgs)) \o FramesOf(Tail(msgs))

\* C15: the messages written with write() or writelines() reach the wrapped
\* stream as encode(m1) ... encode(mn), in order, all of them after flush();
\* each message is handed to the wrapped write in one call, as one frame.
C15_WriterFrames ==
    /\ Len(wcalls) = Len(sent)
    /\ \A i \in 1..Len(wcalls) : wcalls[i] = encode(sent[i])
    /\ stream \o wbuf = FramesOf(sent)
    /\ call.name = "flush" => stream = FramesOf(sent)

\* Three messages, the empty one and one with bytes to escape among them,
\* were written; bytes were held back until flush().
C15_Witness ==
    /\ call.name = "flush" /\ call.had > 0
    /\ sent = <<<<219, 65>>, <<>>, <<192>>>>
    /\ stream = FramesOf(sent)

\* The messages were written one after the other, seek(0) was called after
\* them and was the first call other than write(), and reads followed.
WrittenThenRewound ==
    /\ seeked.n = 1 /\ seeked.whence = "set" /\ seeked.offset = 0
    /\ seeked.mark = 0
    /\ seeked.wrote = Len(sent)

\* C16 as stated: messages m1..mn written to an empty SlipRandom, then
\* seek(0): the n reads after it return m1..mn in order.
C16_WriteSeekRead ==
    WrittenThenRewound =>
        \A i \in 1..Len(outs) : i <= Len(sent) => outs[i] = Returned(sent[i])

\* C16, amended: the same for non-empty messages (the frame of an empty
\* message is two <END> bytes, which read() skips as delimiters).
C16_WriteSeekReadNonEmpty ==
    (\A i \in 1..Len(sent) : sent[i] # <<>>) => C16_WriteSeekRead

\* Three non-empty messages, with bytes to escape, were written, and after
\* seek(0) three reads returned them.
C16_Witness ==
    /\ WrittenThenRewound
    /\ sent = <<<<219>>, <<65>>, <<219>>>>
    /\ outs = <<Returned(sent[1]), Returned(sent[2]), Returned(sent[3])>>

(***************************************************************************)
(* Properties of SlipSocket.                                               *)
(***************************************************************************)
IsPrefix(a, b) == Len(a) <= Len(b) /\ a = SubSeq(b, 1, Len(a))

\* B is in recv(), has pulled every byte A sent, and waits for more.
RecvWaits ==
    /\ open /\ pc # "idle"
    /\ srcpos = Len(stream)
    /\ (pc = "loop1" => OnlyEND(data))
    /\ (pc = "loop2" => NoEND(data))

\* B's recv() calls have returned the messages msgs so far, and all of
\* them when B waits for more bytes; B never waits in the middle of a frame.
RecvReturns(msgs) ==
    /\ \A i \in 1..Len(outs) : IsMsg(outs[i])
    /\ IsPrefix(ReturnedMsgs, msgs)
    /\ RecvWaits => (pc = "loop1" /\ ReturnedMsgs = msgs)

\* C19 as stated: every message A sends is returned by B's recv() once and
\* in the order sent, however the transport divides the bytes, also while B
\* sends between its recv() calls.
C19_SendRecv == RecvReturns(sent)

NonEmpty(m) == m # <<>>

\* C19, amended: the same for the non-empty messages A sends (the frame of
\* an empty message is two <END> bytes, which recv() skips as delimiters).
C19_SendRecvNonEmpty == RecvReturns(SelectSeq(sent, NonEmpty))

\* A sent three messages, B received them all, in pulls one of which ended
\* inside a frame, sent a message itself between two recv() calls, and now
\* waits in recv().
C19_Witness ==
    /\ RecvWaits
    /\ sent = <<<<219>>, <<65>>, <<219>>>>
    /\ ReturnedMsgs = sent
    /\ midesc
    /\ Len(wcalls) >= 1

(***************************************************************************)
(* Properties of readlines and iteration.                                  *)
(***************************************************************************)
Min(a, b) == IF a <= b THEN a ELSE b

\* The number of messages among the first n outcomes.
Consumed(n) == Len(SelectSeq(SubSeq(outs, 1, n), IsMsg))

\* The number of messages of the stream that remained before the call l.
Remaining(l) == Len(Bodies(stream)) - Consumed(l.from)

\* The next n messages of the stream after those returned before the call l.
NextMsgs(l, n) ==
    SubSeq(Messages(Bodies(stream)), Consumed(l.from) + 1, Consumed(l.from) + n)

\* C20: with r messages remaining, readlines(h), h >= 0, returns the next
\* min(h, r) messages in order; readlines() with a negative hint and
\* iteration return all r remaining messages in order and stop; none of
\* them raises EOFError.
C20_ReadLines ==
    \A j \in 1..Len(lines) :
        /\ lines[j].res.kind = "list"
        /\ lines[j].res.out =
              NextMsgs(lines[j],
                       IF lines[j].mode = "hint"
                       THEN Min(lines[j].hint, Remaining(lines[j]))
                       ELSE Remaining(lines[j]))

\* After one read(), readlines(h) with h larger than the number of messages
\* remaining returned the one that remained, after a read() that failed.
C20_Witness ==
    /\ Len(lines) = 1
    /\ lines[1].mode = "hint" /\ lines[1].from = 1 /\ IsMsg(outs[1])
    /\ lines[1].hint > Remaining(lines[1])
    /\ Len(lines[1].res.out) = 1
    /\ outs[Len(outs)] = EOFError

(***************************************************************************)
(* Properties of the calls that are refused.                               *)
(***************************************************************************)
\* C21: readinto(buf) and peek(count) fail with io.UnsupportedOperation in
\* every state of the reader, pull no bytes and leave the buffer, bytes_read
\* and pos as they were.
C21_ReadIntoPeekRefused ==
    /\ [](res.op \in {"readinto", "peek"} => res.exc = "UnsupportedOperation")
    /\ [][res' # res => /\ res'.op \in {"readinto", "peek"}
                        /\ srcpos' = srcpos
                        /\ UNCHANGED <<data, bytes_read, pos>>]_vars

\* peek() was called on a reader that had returned a message and held bytes
\* read ahead.
C21_Witness ==
    /\ res.op = "peek" /\ res.exc = "UnsupportedOperation"
    /\ res.at = Len(outs)
    /\ Len(outs) >= 1 /\ outs[Len(outs)].kind = "msg"
    /\ Len(data) > 0 /\ pc = "idle"

\* C22: seek() of a SlipRWPair fails with io.UnsupportedOperation for every
\* offset and whence and leaves the buffer, bytes_read and pos as they were,
\* so the reads go on with the next message.
C22_PairSeekRefused ==
    /\ [](res.op = "seek" => res.exc = "UnsupportedOperation")
    /\ [][res' # res => UNCHANGED <<data, bytes_read, pos, srcpos>>]_vars
    /\ [](\A i \in 1..Len(outs) : outs[i] = ReadFromStart(stream, i))

\* After a read that left bytes read ahead, seek() was refused, and the
\* read after it returned the second message of the stream.
C22_Witness ==
    /\ res.op = "seek" /\ res.at = 1
    /\ Len(outs) = 2
    /\ outs[1].kind = "msg" /\ outs[2].kind = "msg"
    /\ call.had > 0

(***************************************************************************)
(* Properties of writing beside reading.                                   *)
(***************************************************************************)
\* C28: a message-level write never changes the buffer, bytes_read or pos
\* of the same object, whatever get() call it falls into; these change only
\* inside a get() call (and by reset).
C28_WritesLeaveBuffer ==
    /\ [][wcalls' # wcalls => UNCHANGED <<data, bytes_read, pos>>]_vars
    /\ [][<<data, bytes_read, pos>>' # <<data, bytes_read, pos>>
             => (pc # "idle" /\ wcalls' = wcalls)]_vars

\* Messages were written and a read() that holds a part of a packet is
\* under way after a first read() returned.
C28_Witness ==
    /\ Len(wcalls) >= 2
    /\ pc = "loop2" /\ Len(data) > 0
    /\ Len(outs) >= 1 /\ outs[1].kind = "msg"

(***************************************************************************)
(* Properties of the SlipSocket constructor.                               *)
(***************************************************************************)
\* C23: SlipSocket() with a socket type other than SOCK_STREAM fails with
\* ValueError before a _Buffer is made: no SlipSocket exists for that type,
\* and nothing is sent or received.
C23_StreamSocketsOnly ==
    (sock.type \notin {"none", "SOCK_STREAM"}) =>
        /\ res.op = "SlipSocket" /\ res.exc = "ValueError"
        /\ ~sock.object /\ ~sock.buffer
        /\ ~open /\ stream = <<>> /\ outs = <<>> /\ wcalls = <<>> /\ pc = "idle"

\* SlipSocket(type=SOCK_DGRAM) was called and refused.
C23_Witness ==
    /\ sock.type = "SOCK_DGRAM"
    /\ res.op = "SlipSocket"

(***************************************************************************)
(* recv_into and makefile of SlipSocket.                                   *)
(***************************************************************************)
\* C24: recv_into(buf, size) receives the next message, stores its first
\* min(len(msg), size) bytes and returns that number.
C24_RecvIntoStores ==
    res.op = "recv_into" =>
        /\ res.exc = "none"
        /\ Len(outs) > res.at
        /\ outs[res.at + 1].kind = "msg"
        /\ res.val = Min(Len(outs[res.at + 1].msg), res.arg)

\* C25: the read() calls of the reader that makefile() returned give the
\* messages the peer sent, in order.
C25_MakefileReads ==
    \A i \in 1..Len(outs) : i <= Len(sent) => outs[i] = Returned(sent[i])

(***************************************************************************)
(* Properties of get() when read_func returns nothing or fails.            *)
(***************************************************************************)
\* C26: once read_func has returned no bytes, the get() call has failed
\* with EOFError: read_func is not called again in that call, and the next
\* step of the caller is a new call.
C26_ZeroReadEndsCall ==
    /\ [](zeropull => /\ pc = "idle"
                      /\ Len(outs) >= 1 /\ outs[Len(outs)] = EOFError)
    /\ [][zeropull => /\ pc' = "loop1" /\ ~zeropull'
                      /\ srcpos' = srcpos
                      /\ UNCHANGED <<data, bytes_read, pos>>]_vars

\* read_func returned no bytes after it had delivered a part of a packet in
\* the same get() call.
C26_Witness ==
    /\ zeropull
    /\ Len(data) > call.had
    /\ outs[Len(outs)] = EOFError

\* C27: when read_func fails with a transport error, get() fails with that
\* error (not with EOFError, and not silently); the bytes of the earlier
\* pulls stay in the buffer and in bytes_read, and pos <= bytes_read.
C27_ReadErrorPropagates ==
    /\ [](res.op = "read_func" => outs[res.at + 1] = Raised(res.exc))
    /\ [][res' # res => (pc' = "idle" /\ UNCHANGED <<data, bytes_read, pos>>)]_vars
    /\ [](/\ bytes_read = srcpos
          /\ pos <= bytes_read
          /\ data = SubSeq(stream, pos + 1, bytes_read))

\* read_func failed after it had delivered a part of a packet in the same
\* get() call, which a first get() call had not.
C27_Witness ==
    /\ res.op = "read_func" /\ res.at = Len(outs) - 1
    /\ pc = "idle"
    /\ Len(data) > call.had
    /\ Len(outs) >= 2 /\ outs[1].kind = "msg"

\* C29: over a finite stream that is delivered in non-empty pulls and then
\* gives no bytes, every get() call ends, with a message or with EOFError;
\* get() pulls again only while the buffer holds <END> bytes only (first
\* loop) or no <END> byte (second loop).
C29_GetTerminates ==
    /\ (pc # "idle") ~> (/\ pc = "idle"
                         /\ Len(outs) >= 1
                         /\ outs[Len(outs)].kind \in {"msg", "eof"})
    /\ [][srcpos' > srcpos =>
             \/ pc = "loop1" /\ \A i \in 1..Len(data) : data[i] = 192
             \/ pc = "loop2" /\ \A i \in 1..Len(data) : data[i] # 192]_vars

\* The first get() call returned a message after a pull that had ended in
\* the middle of the frame.
C29_Witness ==
    /\ pc = "idle"
    /\ Len(outs) = 1 /\ outs[1].kind = "msg"
    /\ midesc

(***************************************************************************)
(* The buffer and its counters.                                            *)
(***************************************************************************)
\* C30: in every state of a _Buffer, after any pulls, get() calls that
\* returned or failed, and resets, unread_bytes is the length of the buffer,
\* the buffer holds the last unread_bytes bytes pulled, and, when the pulls
\* began at the offset given to the last reset, these are the raw bytes at
\* offsets pos up to bytes_read.
C30_BufferIsUnreadBytes ==
    /\ unread_bytes = Len(data)
    /\ data = SubSeq(stream, srcpos - unread_bytes + 1, srcpos)
    /\ bytes_read = srcpos => data = SubSeq(stream, pos + 1, bytes_read)

\* After a get() call and a reset to an offset that is not the one of the
\* source, a get() call has pulled bytes and holds a part of a packet.
C30_Witness ==
    /\ Len(outs) >= 1
    /\ bytes_read # srcpos
    /\ pc = "loop2" /\ Len(data) > 0

(***************************************************************************)
(* Properties of get() on frames without a body.                           *)
(***************************************************************************)
\* C31: every message get() returns is non-empty; a frame whose body is
\* empty (encode of the empty message, <END> <END>) is delimiter padding
\* and yields no result: the messages returned are those of the non-empty
\* bodies of the stream, one each, and a stream of <END> bytes yields none.
C31_NoEmptyMessage ==
    /\ \A i \in 1..Len(outs) : IsMsg(outs[i]) => outs[i].msg # <<>>
    /\ IsPrefix(ReturnedMsgs, Messages(Bodies(stream)))
    /\ (\A i \in 1..Len(stream) : stream[i] = 192) => ReturnedMsgs = <<>>

\* A stream with an empty frame before and after a frame with a body was
\* read to its end: one message was returned, then get() failed.
C31_Witness ==
    /\ stream = <<192, 192, 219, 220, 192>>
    /\ outs = <<Returned(<<192>>), EOFError>>
    /\ pc = "idle"

(***************************************************************************)
(* Properties of get() on a buffer that holds a complete frame.            *)
(***************************************************************************)
\* The byte string holds a complete frame: a byte other than <END> with an
\* <END> byte somewhere after it.
HasFrame(d) ==
    \E i, j \in 1..Len(d) : i < j /\ d[i] # 192 /\ d[j] = 192

\* C32: a get() call that finds a complete frame in the buffer returns the
\* message of that frame without calling read_func: from its first step to
\* its last the frame stays in the buffer, neither loop is entered (so the
\* call neither waits nor fails with EOFError), and no byte is pulled.
C32_BufferedFrameNoRead ==
    /\ []((pc # "idle" /\ HasFrame(data)) =>
              /\ pc = "loop1" => ~OnlyEND(data)
              /\ pc = "loop2" => ~NoEND(data))
    /\ [][(HasFrame(data) /\ (pc # "idle" \/ pc' # "idle")) =>
              /\ srcpos' = srcpos
              /\ ~zeropull'
              /\ pc' # "idle" => HasFrame(data')
              /\ pc' = "idle" =>
                    outs' = Append(outs, Returned(decode(Bodies(data)[1])))]_vars

\* The first get() call pulled two frames at once; the second call found
\* the second frame, and a byte after it, in the buffer and returned its
\* message.
C32_Witness ==
    /\ stream = <<65, 192, 219, 192, 65>>
    /\ outs = <<Returned(<<65>>), Returned(<<219>>)>>
    /\ call.name = "get" /\ call.had = 3
    /\ pc = "idle" /\ data = <<65>>

(***************************************************************************)
(* Properties of get() on a data source that grows after EOFError.         *)
(***************************************************************************)
\* The number of leading <END> bytes of s.
LeadingENDs(s) == Len(s) - Len(LStrip(s))

\* The raw bytes from the value of the last tell() up to bytes_read.
SinceTold == SubSeq(stream, told.p + 1, bytes_read)

\* The last read() failed with EOFError, and tell() was called just before
\* it.
FailedAfterTell ==
    /\ pc = "idle"
    /\ Len(outs) >= 1 /\ outs[Len(outs)] = EOFError
    /\ told.at = Len(outs) - 1

\* Whatever calls failed, the messages returned are those of the bodies of
\* the stream, in order; between two calls the buffer holds every pulled
\* byte of the bodies not yet returned, and a call that failed left no
\* complete frame behind.
NothingLost ==
    /\ IsPrefix(ReturnedMsgs, Messages(Bodies(stream)))
    /\ pc = "idle" =>
          /\ Messages(Bodies(PulledBytes)) = ReturnedMsgs \o Messages(Bodies(data))
          /\ OpenRun(data) = OpenRun(PulledBytes)
    /\ zeropull => Bodies(data) = <<>>

\* The failed call moved pos by the leading <END> bytes it removed (none
\* when it failed in the first loop), and the buffer holds the raw bytes
\* from pos to bytes_read.
FailedCallPos ==
    FailedAfterTell =>
        /\ pos = told.p + (IF OnlyEND(SinceTold) THEN 0 ELSE LeadingENDs(SinceTold))
        /\ data = SubSeq(stream, pos + 1, bytes_read)

\* The pull that returns no bytes changes nothing of the _Buffer.
ZeroPullChangesNothing ==
    [][(zeropull' /\ ~zeropull) => UNCHANGED <<data, bytes_read, pos>>]_vars

\* C33 as stated: after a get() call that failed with EOFError, the calls
\* that follow return the messages they would have returned without the
\* zero-byte pull; the failed call loses no byte other than <END>, leaves
\* bytes_read as it was before the call, and moves pos by the leading <END>
\* bytes it removed.
C33_FailedCallKeepsBytesRead ==
    /\ [](NothingLost /\ FailedCallPos)
    /\ [](FailedAfterTell => bytes_read = told.p + told.ahead)
    /\ ZeroPullChangesNothing

\* C33, amended: the same, but bytes_read is left as it was by the pull
\* that returned no bytes, not by the whole call: the pulls of the call
\* before it are counted, so that bytes_read is the number of bytes pulled.
C33_FailedCallLosesNothing ==
    /\ [](NothingLost /\ FailedCallPos)
    /\ [](FailedAfterTell => (bytes_read = srcpos /\ bytes_read >= told.p + told.ahead))
    /\ ZeroPullChangesNothing

\* tell(), then a read() that pulled <END> and the first byte of a body and
\* failed; <END> arrived, and the next read(), begun with the byte in the
\* buffer, returned the message.
C33_Witness ==
    /\ stream = <<192, 65, 192>>
    /\ outs = <<EOFError, Returned(<<65>>)>>
    /\ told.at = 0
    /\ call.name = "get" /\ call.had = 1
    /\ pc = "idle" /\ pos = 3

(***************************************************************************)
(* Properties of wrap.                                                     *)
(***************************************************************************)
\* C34: wrap(obj) returns a SlipWriter for an object that is not readable,
\* else a SlipReader for one that is not writable, else a SlipRWPair for
\* one that is not seekable, else a SlipRandom: one class for every
\* combination of the three answers, and a class with read() for readable
\* objects only, so that messages are read through wrappers of these only.
C34_WrapByCapabilities ==
    wrapped # NoWrapper =>
        /\ ~wrapped.readable => wrapped.class = "SlipWriter"
        /\ (wrapped.readable /\ ~wrapped.writable) => wrapped.class = "SlipReader"
        /\ (wrapped.readable /\ wrapped.writable /\ ~wrapped.seekable)
              => wrapped.class = "SlipRWPair"
        /\ (wrapped.readable /\ wrapped.writable /\ wrapped.seekable)
              => wrapped.class = "SlipRandom"
        /\ HasRead(wrapped.class) => wrapped.readable
        /\ (outs # <<>> \/ pc # "idle") => wrapped.readable

\* wrap() returned a SlipRWPair for an object that is readable and writable
\* and not seekable, and a message was read through it.
C34_Witness ==
    /\ wrapped.class = "SlipRWPair"
    /\ wrapped.readable /\ wrapped.writable /\ ~wrapped.seekable
    /\ Len(outs) >= 1 /\ IsMsg(outs[1])

C36_TrunkAgrees ==
    /\ \A i \in 1..Min(Len(outs), Len(touts)) :
          IF IsMsg(outs[i])
          THEN touts[i] = outs[i]
          ELSE outs[i] = EOFError /\ touts[i] = Raised("RuntimeError")
    /\ (pc = "idle" /\ tpc = "idle" /\ Len(touts) = Len(outs)) =>
          /\ tbuffer = data
          /\ tsrcpos = srcpos

\* Over a stream delivered in two pulls, the first calls returned the same
\* message with a byte read ahead, the second calls failed, get() with
\* EOFError and _recv() with RuntimeError, and both buffers hold the byte.
C36_Witness ==
    /\ cuts = {1, 3}
    /\ outs = <<Returned(<<65>>), EOFError>>
    /\ touts = <<Returned(<<65>>), Raised("RuntimeError")>>
    /\ pc = "idle" /\ tpc = "idle"
    /\ data = <<219>> /\ tbuffer = data

====
